---- MODULE Spec2Model ----
(***************************************************************************)
(* chisel: the request evaluation engine of handler.go.                    *)
(*                                                                         *)
(* One request is followed from Handler.Get through ParseParams,           *)
(* computeResponse (transaction begin loop, step loop, deferred            *)
(* closeTransactions) and reply.  The request context may be cancelled by  *)
(* the environment between any two steps of the handler.                   *)
(*                                                                         *)
(* Spec follows a GET request.  SpecParams covers Get and Post up to the   *)
(* call of computeResponse, SpecPost follows both through an endpoint of   *)
(* one step, SpecReply applies reply to a range of final                   *)
(* values, and SpecFn applies QueryDef.Validate, opaqueInt, Expr.Apply,    *)
(* Mapping.Apply, UnmarshalArgDef, the header part of reply, the pool     *)
(* settings of Main and Config.Validate to inputs of their own.  SpecPanic *)
(* is Spec with the run-time panics of computeResponse, and SpecMain is    *)
(* the group of servers Main starts and waits for.                         *)
(***************************************************************************)
EXTENDS Integers, Sequences, FiniteSets, TLC

\* ---------------------------------------------------------------- bounds
MaxTx    == 2   \* len(h.Query.Transactions) ranges over 1..MaxTx
MaxSteps == 2   \* len(h.Query.Steps) ranges over 1..MaxSteps
MaxArgs  == 2   \* len(s.Args) ranges over 0..MaxArgs
MaxItems == 2   \* an expression yields 0..MaxItems items
MaxChain == 2   \* len(Mapping) ranges over 0..MaxChain

\* ---------------------------------------------------------------- values
\* interface{} values as the handler sees them: a tag and a payload.
Nil      == [t |-> "null", v |-> 0]
IntV(n)  == [t |-> "int",  v |-> n]
StrV(s)  == [t |-> "str",  v |-> s]
ListV(q) == [t |-> "list", v |-> q]
MapV(f)  == [t |-> "map",  v |-> f]
BoolV(b) == [t |-> "bool", v |-> b]

\* float64 values are counted in halves: FloatV(h) is the float64 h/2.
FloatV(h) == [t |-> "float", v |-> h]

\* *big.Int values in sign and magnitude; the magnitude is hi * 2^64 + lo
\* with lo below 2^63.
BigV(neg, hi, lo) == [t |-> "big", v |-> [neg |-> neg, hi |-> hi, lo |-> lo]]

\* error values: the nil error, and the sentinel errors of config.go
NoErr              == "nil"
ErrNoMapping       == "ErrNoMapping"
ErrMultipleMapping == "ErrMultipleMapping"

responseKey == "__response"

\* m[k] of a Go map: the zero value (nil) when the key is absent or m is nil.
Index(m, k) == IF m.t = "map" /\ k \in DOMAIN m.v THEN m.v[k] ELSE Nil

\* l[i] as jq reads it (0-based): null when out of range or not an array.
Nth(l, i) == IF l.t = "list" /\ i + 1 \in DOMAIN l.v THEN l.v[i + 1] ELSE Nil

\* delete(m, k) on a map value; a no-op on a nil map.
Delete(m, k) ==
    IF m.t = "map"
    THEN MapV([x \in (DOMAIN m.v) \ {k} |-> m.v[x]])
    ELSE m

\* An item yielded by a gojq iterator is a value or an error.
ErrItem == [t |-> "error", v |-> "expr"]

\* ------------------------------------------------- expression runtime
\* Compiled expressions (Expr.Code) are named by their jq source.  The
\* runtime is external; each program below is evaluated as jq evaluates it.
Envelope(st) == MapV(responseKey :> MapV("status" :> st) @@ "data" :> IntV(1))

StrToNum(s) == IF s = "42" THEN 42 ELSE 0

Run(e, input, ctxVar) ==
    CASE e = "."       -> <<input>>
      [] e = "empty"   -> << >>
      [] e = "error"   -> <<ErrItem>>
      [] e = ".,."     -> <<input, input>>
      [] e = "first"   -> IF input.t = "list" THEN <<Nth(input, 0)>> ELSE <<ErrItem>>
      [] e = "tonumber" ->
            IF input.t = "int" THEN <<input>>
            ELSE IF input.t = "str" /\ input.v = "42" THEN <<IntV(StrToNum(input.v))>>
            ELSE <<ErrItem>>
      [] e = "$context.outputs[0]" -> <<Nth(Index(ctxVar, "outputs"), 0)>>
      [] e = "$context.params.path.id" ->
            <<Index(Index(Index(ctxVar, "params"), "path"), "id")>>
      [] e = "{__response:{status:0},data:1}"   -> <<Envelope(IntV(0))>>
      [] OTHER -> <<ErrItem>>

\* RunWithContext: a cancelled context may surface as an error item.
RunWithContext(cancel, e, input, ctxVar) ==
    {Run(e, input, ctxVar)} \cup (IF cancel THEN {<<ErrItem>>} ELSE {})

\* Expr.Apply keeping the first of several values.
ExprApplyFirst(items) ==
    IF Len(items) = 0 THEN [val |-> Nil, err |-> ErrNoMapping]
    ELSE IF items[1].t = "error" THEN [val |-> Nil, err |-> "ErrExpr"]
    ELSE [val |-> items[1], err |-> NoErr]

\* Expr.Apply on the items the iterator yields.
ExprApply(items) ==
    IF Len(items) = 0 THEN [val |-> Nil, err |-> ErrNoMapping]
    ELSE IF items[1].t = "error" THEN [val |-> Nil, err |-> "ErrExpr"]
    ELSE IF Len(items) > 1 THEN [val |-> Nil, err |-> ErrMultipleMapping]
    ELSE [val |-> items[1], err |-> NoErr]

\* Mapping.Apply: the possible results of folding the chain m over input.
\* A result carries the index the error is annotated with (idx, -1 without
\* error) and the number of expressions that were applied (n).
RECURSIVE MappingFold(_, _, _, _, _)
MappingFold(cancel, m, i, output, ctxVar) ==
    IF i > Len(m)
    THEN {[val |-> output, err |-> NoErr, idx |-> -1, n |-> Len(m)]}
    ELSE UNION {
        LET r == ExprApply(items) IN
        IF r.err # NoErr
        THEN {[val |-> Nil, err |-> "ErrMapping", idx |-> i - 1, n |-> i]}
        ELSE MappingFold(cancel, m, i + 1, r.val, ctxVar)
        : items \in RunWithContext(cancel, m[i], output, ctxVar) }

\* Mapping.Apply applying the last expression of the chain only.
MappingApplyLast(cancel, m, input, ctxVar) ==
    IF Len(m) = 0 THEN {[val |-> input, err |-> NoErr, idx |-> -1, n |-> 0]}
    ELSE MappingFold(cancel, m, Len(m), input, ctxVar)

MappingApply(cancel, m, input, ctxVar) ==
    IF Len(m) = 0 THEN {[val |-> input, err |-> NoErr, idx |-> -1, n |-> 0]}
    ELSE MappingFold(cancel, m, 1, input, ctxVar)

\* ------------------------------------------------- response materializer
MaxInt == 2147483647

\* strconv.ParseInt(s, 0, 64) on the strings that occur as values.
ParseInt(s) ==
    CASE s = "42"    -> [i |-> 42,  ok |-> TRUE]
      [] s = "404"   -> [i |-> 404, ok |-> TRUE]
      [] s = "0x194" -> [i |-> 404, ok |-> TRUE]
      [] s = "0o12"  -> [i |-> 10,  ok |-> TRUE]
      [] s = "0x10"  -> [i |-> 16,  ok |-> TRUE]
      [] s = "-1"    -> [i |-> -1,  ok |-> TRUE]
      [] OTHER       -> [i |-> 0,   ok |-> FALSE]

\* strconv.FormatInt(n, 10) on the integers that occur as values.
FormatInt(n) ==
    CASE n = 0   -> "0"
      [] n = 1   -> "1"
      [] n = 42  -> "42"
      [] n = 404 -> "404"
      [] OTHER   -> "?"

\* int64(v) of a float64 within the int64 range: the fraction is dropped.
TruncFloat(h) == IF h >= 0 THEN h \div 2 ELSE -((-h) \div 2)

\* (*big.Int).Int64: the low 64 bits of the magnitude, with the sign.
BigInt64(b) == IF b.neg THEN -b.lo ELSE b.lo

\* strconv.FormatFloat(v, 'f', -1, 64) and (*big.Int).String on a value.
FormatFloat(h) ==
    IF h % 2 = 0 THEN FormatInt(h \div 2)
    ELSE IF h >= 0 THEN FormatInt(TruncFloat(h)) \o ".5"
    ELSE "-" \o FormatInt(-TruncFloat(h)) \o ".5"

BigString(b) ==
    IF b.hi = 0
    THEN (IF b.neg THEN "-" ELSE "") \o FormatInt(b.lo)
    ELSE "<big>"

opaqueInt(v) ==
    CASE v.t = "null"  -> [i |-> 0, ok |-> FALSE]
      [] v.t = "float" -> [i |-> TruncFloat(v.v), ok |-> TRUE]
      [] v.t = "big"   -> [i |-> BigInt64(v.v), ok |-> TRUE]
      [] v.t = "int"   -> [i |-> v.v, ok |-> TRUE]
      [] v.t = "str"   -> ParseInt(v.v)
      [] OTHER         -> [i |-> 0, ok |-> FALSE]

opaqueString(v) ==
    CASE v.t = "null"  -> [s |-> "", ok |-> FALSE]
      [] v.t = "str"   -> [s |-> v.v, ok |-> TRUE]
      [] v.t = "float" -> [s |-> FormatFloat(v.v), ok |-> TRUE]
      [] v.t = "big"   -> [s |-> BigString(v.v), ok |-> TRUE]
      [] v.t = "int"   -> [s |-> FormatInt(v.v), ok |-> TRUE]
      [] OTHER         -> [s |-> "<json>", ok |-> TRUE]

\* http.Error(w, msg, code)
HttpError(code, msg) == [status |-> code, body |-> StrV(msg)]

\* Handler.reply looking data_key up in the __response object.
replyDataKeyInEnvelope(out) ==
    LET mr       == IF out.t = "map" THEN out ELSE Nil
        r        == Index(mr, responseKey)
        env      == r.t = "map"
        status64 == opaqueInt(Index(r, "status"))
        dataKey  == opaqueString(Index(r, "data_key"))
    IN  IF env /\ status64.ok /\ (status64.i > MaxInt \/ status64.i <= 0)
        THEN HttpError(500, "internal server error")
        ELSE [status |-> IF env /\ status64.ok THEN status64.i ELSE 200,
              body   |-> IF env /\ dataKey.ok
                         THEN Index(r, dataKey.s)
                         ELSE Delete(out, responseKey)]

\* Handler.reply: the response it writes for the final value out.
reply(out) ==
    LET mr       == IF out.t = "map" THEN out ELSE Nil
        r        == Index(mr, responseKey)
        env      == r.t = "map"
        status64 == opaqueInt(Index(r, "status"))
        dataKey  == opaqueString(Index(r, "data_key"))
    IN  IF env /\ status64.ok /\ (status64.i > MaxInt \/ status64.i <= 0)
        THEN HttpError(500, "internal server error")
        ELSE [status |-> IF env /\ status64.ok THEN status64.i ELSE 200,
              body   |-> IF env /\ dataKey.ok
                         THEN Index(mr, dataKey.s)
                         ELSE Delete(out, responseKey)]

\* ------------------------------------------------- endpoint definitions
\* IsolationLevel.RequiresTranscation holding for every level.
RequiresTranscationAlways(isolation) == TRUE

\* IsolationLevel.RequiresTranscation: "none" is the level -1.
RequiresTranscation(isolation) == isolation # "none"

IsolationLevels == {"none", "serializable"}

SeqsUpTo(S, n) == UNION {[1..k -> S] : k \in 0..n}

\* QueryDef.Validate: at least one transaction, every step's index within
\* bounds, every transaction referenced.  Transaction indices are 0-based.
Validate(qd) ==
    LET all  == 0..(Len(qd.Transactions) - 1)
        refs == {qd.Steps[i].Transaction : i \in DOMAIN qd.Steps}
    IN  /\ all # {}
        /\ \A i \in DOMAIN qd.Steps : qd.Steps[i].Transaction \in all
        /\ all = refs

\* The validated query definitions of the bounded size whose steps refer to
\* the transactions in index order; the handler uses a step's index only to
\* pick the handle the query runs on.
QueryDefs ==
    {qd \in [Transactions : SeqsUpTo([Isolation : IsolationLevels], MaxTx),
             Steps        : SeqsUpTo([Transaction : 0..(MaxTx - 1)], MaxSteps)]
        : /\ Validate(qd)
          /\ \A i \in 1..(Len(qd.Steps) - 1) :
                qd.Steps[i].Transaction <= qd.Steps[i + 1].Transaction}

\* The argument definitions a step may carry (ArgLiteral, PathParamRef,
\* QueryParamRef, ExprParam), and the expressions of a step's mapping.
ArgLiteral(v)    == [kind |-> "literal", Literal |-> v,   Name |-> "",  Expr |-> ""]
PathParamRef(n)  == [kind |-> "path",    Literal |-> Nil, Name |-> n,   Expr |-> ""]
QueryParamRef(n) == [kind |-> "query",   Literal |-> Nil, Name |-> n,   Expr |-> ""]
ExprParam(e)     == [kind |-> "expr",    Literal |-> Nil, Name |-> "",  Expr |-> e]

ArgDefs ==
    {ArgLiteral(IntV(42)), ArgLiteral(ListV(<< >>)),
     PathParamRef("id"), QueryParamRef("tag"), QueryParamRef("page"),
     ExprParam("$context.params.path.id"),
     ExprParam("empty")}

Mappings ==
    {<< >>, <<"first">>, <<"$context.outputs[0]">>,
     <<"{__response:{status:0},data:1}">>,
     <<"error">>, <<".,.">>, <<"first", ".">>}

\* Row sets the database may return for a query (results.Opaque()).
RowSets == {ListV(<<MapV("id" :> IntV(1))>>)}

\* Requests: the router always binds the path parameter "id"; the query
\* parameter "tag" is supplied twice or not at all.
Requests ==
    [Path  : {"id" :> StrV("42")},
     Query : {"tag" :> ListV(<<StrV("a"), StrV("b")>>)}]

\* h.PathParams and h.QueryParams (ParamMappings: name -> Mapping).
PathParamMappings  == {"id" :> <<"tonumber">>, "id" :> <<"error">>}
QueryParamMappings == {<< >>, "tag" :> <<"error">>, "page" :> <<"error">>}

\* ------------------------------------------------- state
VARIABLES
    Query,         \* h.Query: Transactions and the Transaction index of each step
    pc,            \* position of the handler
    cancelled,     \* ctx.Err() # nil
    params,        \* *Params: Path and Query
    transactions,  \* computeResponse: []*transactionState ("nil", "pool" or "tx")
    tdi,           \* index of the begin loop
    si,            \* index of the step loop
    nargs,         \* len(s.Args) of the current step
    adi,           \* index of the argument loop
    args,          \* the local args of the current step
    argCtx,        \* argContext: args, stepResults, outputs
    out,           \* named result out
    err,           \* named result err
    ti,            \* index of the closeTransactions loop
    db,            \* calls received by the databases, in order
    resp,          \* responses written to the http.ResponseWriter, in order
    lastEval,      \* what the last expression evaluation was given, or the
                   \* parameter the last argument resolution referred to
    fnInput,       \* the argument of a function applied on its own
    fnResult       \* what that function returned

vars == <<Query, pc, cancelled, params, transactions, tdi, si, nargs, adi,
          args, argCtx, out, err, ti, db, resp, lastEval, fnInput,
          fnResult>>

NumTx    == Len(Query.Transactions)
NumSteps == Len(Query.Steps)

NoEval == [where |-> "none"]

\* The argContext before it is built and after its scope has ended.
NoArgCtx == [params |-> [Path |-> << >>, Query |-> << >>], body |-> Nil,
             args |-> << >>, stepResults |-> << >>, outputs |-> << >>]

Init ==
    /\ Query \in QueryDefs
    /\ pc = "Get"
    /\ cancelled = FALSE
    /\ params = [Path |-> << >>, Query |-> << >>]
    /\ transactions = << >>
    /\ tdi = 0
    /\ si = 0
    /\ nargs = 0
    /\ adi = 0
    /\ args = << >>
    /\ argCtx = NoArgCtx
    /\ out = Nil
    /\ err = NoErr
    /\ ti = 0
    /\ db = << >>
    /\ resp = << >>
    /\ lastEval = NoEval
    /\ fnInput = Nil
    /\ fnResult = Nil

\* ------------------------------------------------- helpers of the handler
\* Params.Opaque and argContext.Opaque: params and body are set once; args,
\* steps and outputs are copied afresh on every call.
ParamsOpaque(p) == MapV("path" :> MapV(p.Path) @@ "query" :> MapV(p.Query))

\* Opaque with outputs refreshed from stepResults.
OpaqueSwapped(c) ==
    MapV("params"  :> ParamsOpaque(c.params) @@
         "body"    :> c.body @@
         "args"    :> ListV(c.args) @@
         "steps"   :> ListV(c.stepResults) @@
         "outputs" :> ListV(c.stepResults))

Opaque(c) ==
    MapV("params"  :> ParamsOpaque(c.params) @@
         "body"    :> c.body @@
         "args"    :> ListV(c.args) @@
         "steps"   :> ListV(c.stepResults) @@
         "outputs" :> ListV(c.outputs))

\* mapParams of ParseParams: every mapped name present in ps is replaced by
\* the result of its mapping; the first failure aborts.
mapParams(cancel, mappings, ps) ==
    LET R(k) == IF k \in DOMAIN mappings
                THEN MappingApply(cancel, mappings[k], ps[k], Nil)
                ELSE {[val |-> ps[k], err |-> NoErr, idx |-> -1, n |-> 0]}
        choices == {g \in [DOMAIN ps -> UNION {R(k) : k \in DOMAIN ps}] :
                        \A k \in DOMAIN ps : g[k] \in R(k)}
    IN  UNION {
          IF \E k \in DOMAIN ps : g[k].err # NoErr
          THEN {[params |-> ps, err |-> "ErrParam", name |-> k] :
                    k \in {x \in DOMAIN ps : g[x].err # NoErr}}
          ELSE {[params |-> [k \in DOMAIN ps |-> g[k].val], err |-> NoErr, name |-> ""]}
          : g \in choices }

ParseParams(cancel, req, pathMaps, queryMaps) ==
    UNION {
      IF rp.err # NoErr
      THEN {[params |-> [Path |-> req.Path, Query |-> req.Query],
             err |-> rp.err, name |-> rp.name]}
      ELSE {[params |-> [Path |-> rp.params, Query |-> rq.params],
             err |-> rq.err, name |-> rq.name] :
                rq \in mapParams(cancel, queryMaps, req.Query)}
      : rp \in mapParams(cancel, pathMaps, req.Path) }

\* newTransaction: a bare pool handle for isolation none, otherwise BeginTxx,
\* which fails on a cancelled context and may fail on a live one.
newTransaction(cancel, td) ==
    IF ~RequiresTranscation(td.Isolation)
    THEN {[t |-> "pool", err |-> NoErr]}
    ELSE (IF cancel THEN {} ELSE {[t |-> "tx", err |-> NoErr]})
         \cup {[t |-> "nil", err |-> "ErrBegin"]}

\* argContext.Resolve giving null for a parameter that is not defined.
ResolveAbsentAsNull(cancel, c, ad) ==
    CASE ad.kind = "literal" -> {[val |-> ad.Literal, err |-> NoErr]}
      [] ad.kind = "path" ->
            {[val |-> Index(MapV(c.params.Path), ad.Name), err |-> NoErr]}
      [] ad.kind = "query" ->
            {[val |-> Index(MapV(c.params.Query), ad.Name), err |-> NoErr]}
      [] ad.kind = "expr" ->
            {ExprApply(items) :
                items \in RunWithContext(cancel, ad.Expr, Opaque(c), Opaque(c))}

\* argContext.Resolve
Resolve(cancel, c, ad) ==
    CASE ad.kind = "literal" -> {[val |-> ad.Literal, err |-> NoErr]}
      [] ad.kind = "path" ->
            IF ad.Name \in DOMAIN c.params.Path
            THEN {[val |-> c.params.Path[ad.Name], err |-> NoErr]}
            ELSE {[val |-> Nil, err |-> "ErrPathParam"]}
      [] ad.kind = "query" ->
            IF ad.Name \in DOMAIN c.params.Query
            THEN {[val |-> c.params.Query[ad.Name], err |-> NoErr]}
            ELSE {[val |-> Nil, err |-> "ErrQueryParam"]}
      [] ad.kind = "expr" ->
            {ExprApply(items) :
                items \in RunWithContext(cancel, ad.Expr, Opaque(c), Opaque(c))}

\* sqlx.In: list arguments are spliced in place; an empty list is an error.
RECURSIVE Flatten(_)
Flatten(as) ==
    IF Len(as) = 0 THEN << >>
    ELSE (IF Head(as).t = "list" THEN Head(as).v ELSE <<Head(as)>>)
         \o Flatten(Tail(as))

\* sqlx.In putting the members of the lists after the other arguments.
InListsLast(as) ==
    IF \E i \in DOMAIN as : as[i].t = "list" /\ Len(as[i].v) = 0
    THEN [args |-> << >>, err |-> "ErrIn"]
    ELSE [args |-> SelectSeq(as, LAMBDA x : x.t # "list")
                   \o Flatten(SelectSeq(as, LAMBDA x : x.t = "list")),
          err |-> NoErr]

In(as) ==
    IF \E i \in DOMAIN as : as[i].t = "list" /\ Len(as[i].v) = 0
    THEN [args |-> << >>, err |-> "ErrIn"]
    ELSE [args |-> Flatten(as), err |-> NoErr]

\* CommitOrRollback with err overwritten by ctx.Err() instead of defaulted.
CommitOrRollbackShadowErr(cancel, e, t) ==
    LET e2 == IF cancel THEN "ErrCtx" ELSE NoErr
    IN  IF t # "tx"
        THEN {[op |-> "none", operr |-> NoErr]}
        ELSE {[op |-> IF e2 # NoErr THEN "rollback" ELSE "commit", operr |-> x] :
                x \in {NoErr, "ErrOp"}}

\* CommitOrRollback without the ctx.Err() check.
CommitOrRollbackNoCtx(cancel, e, t) ==
    IF t # "tx"
    THEN {[op |-> "none", operr |-> NoErr]}
    ELSE {[op |-> IF e # NoErr THEN "rollback" ELSE "commit", operr |-> x] :
            x \in {NoErr, "ErrOp"}}

\* transactionState.CommitOrRollback: the operation it performs on handle t
\* and the error that operation returns.
CommitOrRollback(cancel, e, t) ==
    LET e2 == IF e = NoErr /\ cancel THEN "ErrCtx" ELSE e
    IN  IF t # "tx"
        THEN {[op |-> "none", operr |-> NoErr]}
        ELSE {[op |-> IF e2 # NoErr THEN "rollback" ELSE "commit", operr |-> x] :
                x \in {NoErr, "ErrOp"}}

DbCall(op, tx, n, ok) == [op |-> op, tx |-> tx, n |-> n, ok |-> ok]

\* ------------------------------------------------- actions
\* The error return shared by every failing stage of computeResponse:
\* http.Error, then return nil, err.  The locals of the step loop go out of
\* scope.  The deferred closeTransactions follows (next = "close").
ReturnError(next, code, msg, e) ==
    /\ resp' = Append(resp, HttpError(code, msg))
    /\ out' = Nil
    /\ err' = e
    /\ pc' = next
    /\ nargs' = 0
    /\ adi' = 0
    /\ args' = << >>
    /\ argCtx' = NoArgCtx

Abort(code, msg, e) == ReturnError("close", code, msg, e)

\* Handler.Get up to the call of computeResponse: ParseParams, and the
\* allocation of the transactions slice.
GetParseParams ==
    /\ pc = "Get"
    /\ \E req \in Requests, pm \in PathParamMappings, qm \in QueryParamMappings :
         \E r \in ParseParams(cancelled, req, pm, qm) :
            IF r.err # NoErr
            THEN /\ resp' = Append(resp, HttpError(400, "bad request: " \o r.name))
                 /\ pc' = "done"
                 /\ UNCHANGED <<params, transactions>>
            ELSE /\ params' = r.params
                 /\ transactions' = [i \in 1..NumTx |-> "nil"]
                 /\ pc' = "begin"
                 /\ UNCHANGED resp
    /\ lastEval' = NoEval
    /\ UNCHANGED <<fnInput, fnResult, Query, cancelled, tdi, si, nargs, adi, args, argCtx, out,
                   err, ti, db>>

\* The failure branch of the begin loop: http.Error and return nil, err,
\* with the deferred closeTransactions already registered.
BeginFailedNoDefer(e) ==
    ReturnError("returned", 500, "error preparing request", e)

BeginFailed(e) ==
    Abort(500, "error preparing request", e)

\* One iteration of the begin loop of computeResponse; after the last one
\* the argContext is built around params and the body computeResponse was
\* called with.
BeginTransaction ==
    /\ pc = "begin"
    /\ \E r \in newTransaction(cancelled, Query.Transactions[tdi + 1]) :
         IF r.err # NoErr
         THEN /\ BeginFailed(r.err)
              /\ db' = Append(db, DbCall("begin", tdi, 0, FALSE))
              /\ UNCHANGED <<transactions, tdi>>
         ELSE /\ transactions' = [transactions EXCEPT ![tdi + 1] = r.t]
              /\ db' = IF r.t = "tx"
                       THEN Append(db, DbCall("begin", tdi, 0, TRUE))
                       ELSE db
              /\ tdi' = tdi + 1
              /\ IF tdi + 1 = NumTx
                 THEN /\ argCtx' = [NoArgCtx EXCEPT !.params = params,
                                                    !.body = argCtx.body]
                      /\ pc' = "step"
                 ELSE /\ pc' = "begin"
                      /\ UNCHANGED argCtx
              /\ UNCHANGED <<resp, out, err, nargs, adi, args>>
    /\ lastEval' = NoEval
    /\ UNCHANGED <<fnInput, fnResult, Query, cancelled, params, si, ti>>

\* Top of the step loop: the step's argument slice is allocated.
StepStart ==
    /\ pc = "step"
    /\ \E n \in 0..MaxArgs :
         /\ nargs' = n
         /\ args' = [i \in 1..n |-> Nil]
         /\ pc' = IF n = 0 THEN "expand" ELSE "resolve"
    /\ adi' = 0
    /\ lastEval' = NoEval
    /\ UNCHANGED <<fnInput, fnResult, Query, cancelled, params, transactions, tdi, si, argCtx,
                   out, err, ti, db, resp>>

\* One iteration of the argument loop: argCtx.Resolve(ctx, ad).
ResolveArg ==
    /\ pc = "resolve"
    /\ \E ad \in ArgDefs :
         /\ lastEval' = CASE ad.kind = "expr" ->
                                [where |-> "arg", step |-> si, pos |-> adi,
                                 ctx |-> Opaque(argCtx)]
                          [] ad.kind \in {"path", "query"} ->
                                [where |-> "ref", step |-> si, pos |-> adi,
                                 kind |-> ad.kind, name |-> ad.Name]
                          [] OTHER -> NoEval
         /\ \E r \in Resolve(cancelled, argCtx, ad) :
              IF r.err # NoErr
              THEN Abort(500, "error resolving arguments", r.err)
              ELSE /\ args' = [args EXCEPT ![adi + 1] = r.val]
                   /\ adi' = adi + 1
                   /\ pc' = IF adi + 1 = nargs THEN "expand" ELSE "resolve"
                   /\ UNCHANGED <<resp, out, err, nargs, argCtx>>
    /\ UNCHANGED <<fnInput, fnResult, Query, cancelled, params, transactions, tdi, si, ti, db>>

\* ExpandArgs with argCtx.args assigned after sqlx.In has replaced args.
ExpandArgsRecordExpanded ==
    /\ pc = "expand"
    /\ LET r == In(args) IN
         IF r.err # NoErr
         THEN Abort(500, "internal server error", r.err)
         ELSE /\ argCtx' = [argCtx EXCEPT !.args = r.args]
              /\ args' = r.args
              /\ pc' = "exec"
              /\ UNCHANGED <<resp, out, err, nargs, adi>>
    /\ lastEval' = NoEval
    /\ UNCHANGED <<fnInput, fnResult, Query, cancelled, params, transactions, tdi, si, ti, db>>

\* argCtx.args = args, then sqlx.In and Rebind.
ExpandArgs ==
    /\ pc = "expand"
    /\ LET r == In(args) IN
         IF r.err # NoErr
         THEN Abort(500, "internal server error", r.err)
         ELSE /\ argCtx' = [argCtx EXCEPT !.args = args]
              /\ args' = r.args
              /\ pc' = "exec"
              /\ UNCHANGED <<resp, out, err, nargs, adi>>
    /\ lastEval' = NoEval
    /\ UNCHANGED <<fnInput, fnResult, Query, cancelled, params, transactions, tdi, si, ti, db>>

\* ExecQuery trying a failed query a second time.
ExecQueryRetry ==
    /\ pc = "exec"
    /\ LET t == Query.Steps[si + 1].Transaction IN
         \/ /\ ~cancelled
            /\ db' = Append(db, DbCall("query", t, si, TRUE))
            /\ pc' = "scan"
            /\ UNCHANGED <<resp, out, err, nargs, adi, args, argCtx>>
         \/ /\ db' = Append(db, DbCall("query", t, si, FALSE))
            /\ IF \E q \in DOMAIN db : db[q].op = "query" /\ db[q].n = si
               THEN Abort(500, "internal server error", "ErrQuery")
               ELSE UNCHANGED <<pc, resp, out, err, nargs, adi, args, argCtx>>
    /\ lastEval' = NoEval
    /\ UNCHANGED <<fnInput, fnResult, Query, cancelled, params, transactions,
                   tdi, si, ti>>

\* ExecQuery running every step on the first transaction.
ExecQueryOnFirst ==
    /\ pc = "exec"
    /\ \/ /\ ~cancelled
          /\ db' = Append(db, DbCall("query", 0, si, TRUE))
          /\ pc' = "scan"
          /\ UNCHANGED <<resp, out, err, nargs, adi, args, argCtx>>
       \/ /\ db' = Append(db, DbCall("query", 0, si, FALSE))
          /\ Abort(500, "internal server error", "ErrQuery")
    /\ lastEval' = NoEval
    /\ UNCHANGED <<fnInput, fnResult, Query, cancelled, params, transactions,
                   tdi, si, ti>>

\* t.QueryContext on the step's transaction.
ExecQuery ==
    /\ pc = "exec"
    /\ LET t == Query.Steps[si + 1].Transaction IN
         \/ /\ ~cancelled
            /\ db' = Append(db, DbCall("query", t, si, TRUE))
            /\ pc' = "scan"
            /\ UNCHANGED <<resp, out, err, nargs, adi, args, argCtx>>
         \/ /\ db' = Append(db, DbCall("query", t, si, FALSE))
            /\ Abort(500, "internal server error", "ErrQuery")
    /\ lastEval' = NoEval
    /\ UNCHANGED <<fnInput, fnResult, Query, cancelled, params, transactions, tdi, si, ti>>

\* vdb.ScanRows, and the append of the raw result to stepResults.
ScanRows ==
    /\ pc = "scan"
    /\ \/ \E res \in RowSets :
            /\ argCtx' = [argCtx EXCEPT !.stepResults = Append(@, res)]
            /\ pc' = "map"
            /\ UNCHANGED <<resp, out, err, nargs, adi, args>>
       \/ Abort(500, "internal server error", "ErrScan")
    /\ lastEval' = NoEval
    /\ UNCHANGED <<fnInput, fnResult, Query, cancelled, params, transactions, tdi, si, ti, db>>

\* ApplyMap appending the raw result to outputs before the chain runs and
\* replacing it by the chain's result afterwards.
ApplyMapOutputsFirst ==
    /\ pc = "map"
    /\ \E m \in Mappings :
         LET raw == argCtx.stepResults[Len(argCtx.stepResults)]
             c   == [argCtx EXCEPT !.outputs = Append(@, raw)]
         IN
         /\ lastEval' = IF Len(m) > 0
                        THEN [where |-> "map", step |-> si, pos |-> 0,
                              ctx |-> Opaque(c)]
                        ELSE NoEval
         /\ \E r \in MappingApply(cancelled, m, raw, Opaque(c)) :
              IF r.err # NoErr
              THEN /\ Abort(500, "internal server error", r.err)
                   /\ UNCHANGED si
              ELSE /\ argCtx' = [argCtx EXCEPT !.outputs = Append(@, r.val)]
                   /\ si' = si + 1
                   /\ IF si + 1 = NumSteps
                      THEN /\ out' = r.val
                           /\ err' = NoErr
                           /\ pc' = "close"
                           /\ nargs' = 0
                           /\ adi' = 0
                           /\ args' = << >>
                      ELSE /\ pc' = "step"
                           /\ UNCHANGED <<out, err, nargs, adi, args>>
                   /\ UNCHANGED resp
    /\ UNCHANGED <<fnInput, fnResult, Query, cancelled, params, transactions,
                   tdi, ti, db>>

\* s.Map.Apply on the raw result, the append to outputs, and after the last
\* step the return of outputs[len-1].
ApplyMap ==
    /\ pc = "map"
    /\ \E m \in Mappings :
         /\ lastEval' = IF Len(m) > 0
                        THEN [where |-> "map", step |-> si, pos |-> 0,
                              ctx |-> Opaque(argCtx)]
                        ELSE NoEval
         /\ \E r \in MappingApply(cancelled, m,
                                  argCtx.stepResults[Len(argCtx.stepResults)],
                                  Opaque(argCtx)) :
              IF r.err # NoErr
              THEN /\ Abort(500, "internal server error", r.err)
                   /\ UNCHANGED si
              ELSE /\ argCtx' = [argCtx EXCEPT !.outputs = Append(@, r.val)]
                   /\ si' = si + 1
                   /\ IF si + 1 = NumSteps
                      THEN /\ out' = r.val
                           /\ err' = NoErr
                           /\ pc' = "close"
                           /\ nargs' = 0
                           /\ adi' = 0
                           /\ args' = << >>
                      ELSE /\ pc' = "step"
                           /\ UNCHANGED <<out, err, nargs, adi, args>>
                   /\ UNCHANGED resp
    /\ UNCHANGED <<fnInput, fnResult, Query, cancelled, params, transactions, tdi, ti, db>>

\* CloseTransaction leaving the loop at the first finalization error.
CloseTransactionStopOnError ==
    /\ pc = "close"
    /\ ti < NumTx
    /\ transactions[ti + 1] # "nil"
    /\ \E r \in CommitOrRollback(cancelled, err, transactions[ti + 1]) :
         /\ db' = IF r.op # "none"
                  THEN Append(db, DbCall(r.op, ti, 0, r.operr = NoErr))
                  ELSE db
         /\ ti' = IF r.operr # NoErr THEN NumTx ELSE ti + 1
    /\ lastEval' = NoEval
    /\ UNCHANGED <<fnInput, fnResult, Query, pc, cancelled, params, transactions, tdi, si, nargs,
                   adi, args, argCtx, out, err, resp>>

\* CloseTransaction assigning the finalization error to the named result.
CloseTransactionErrOverride ==
    /\ pc = "close"
    /\ ti < NumTx
    /\ transactions[ti + 1] # "nil"
    /\ \E r \in CommitOrRollback(cancelled, err, transactions[ti + 1]) :
         /\ db' = IF r.op # "none"
                  THEN Append(db, DbCall(r.op, ti, 0, r.operr = NoErr))
                  ELSE db
         /\ err' = IF r.operr # NoErr THEN r.operr ELSE err
    /\ ti' = ti + 1
    /\ lastEval' = NoEval
    /\ UNCHANGED <<fnInput, fnResult, Query, pc, cancelled, params, transactions, tdi, si, nargs,
                   adi, args, argCtx, out, resp>>

\* One iteration of the deferred closeTransactions loop.
CloseTransaction ==
    /\ pc = "close"
    /\ ti < NumTx
    /\ transactions[ti + 1] # "nil"
    /\ \E r \in CommitOrRollback(cancelled, err, transactions[ti + 1]) :
         db' = IF r.op # "none"
               THEN Append(db, DbCall(r.op, ti, 0, r.operr = NoErr))
               ELSE db
    /\ ti' = ti + 1
    /\ lastEval' = NoEval
    /\ UNCHANGED <<fnInput, fnResult, Query, pc, cancelled, params, transactions, tdi, si, nargs,
                   adi, args, argCtx, out, err, resp>>

\* CloseDone taking a bare pool handle for the end of the partial setup.
CloseDoneAtPool ==
    /\ pc = "close"
    /\ IF ti < NumTx THEN transactions[ti + 1] \in {"nil", "pool"} ELSE TRUE
    /\ pc' = "returned"
    /\ argCtx' = NoArgCtx
    /\ lastEval' = NoEval
    /\ UNCHANGED <<fnInput, fnResult, Query, cancelled, params, transactions, tdi, si, nargs,
                   adi, args, out, err, ti, db, resp>>

\* closeTransactions returns: the slice is exhausted or the next entry is
\* nil (partial setup); computeResponse returns to Get.
CloseDone ==
    /\ pc = "close"
    /\ IF ti < NumTx THEN transactions[ti + 1] = "nil" ELSE TRUE
    /\ pc' = "returned"
    /\ argCtx' = NoArgCtx
    /\ lastEval' = NoEval
    /\ UNCHANGED <<fnInput, fnResult, Query, cancelled, params, transactions, tdi, si, nargs,
                   adi, args, out, err, ti, db, resp>>

\* Handler.Get calling reply whatever computeResponse returned.
GetReplyNoReturn ==
    /\ pc = "returned"
    /\ resp' = Append(resp, reply(out))
    /\ pc' = "done"
    /\ lastEval' = NoEval
    /\ UNCHANGED <<fnInput, fnResult, Query, cancelled, params, transactions,
                   tdi, si, nargs, adi, args, argCtx, out, err, ti, db>>

\* Handler.Get after computeResponse: return on error, otherwise reply.
GetReply ==
    /\ pc = "returned"
    /\ resp' = IF err # NoErr THEN resp ELSE Append(resp, reply(out))
    /\ pc' = "done"
    /\ lastEval' = NoEval
    /\ UNCHANGED <<fnInput, fnResult, Query, cancelled, params, transactions, tdi, si, nargs,
                   adi, args, argCtx, out, err, ti, db>>

\* The request context is cancelled or times out (client gone, deadline).
Cancel ==
    /\ pc # "done"
    /\ ~cancelled
    /\ cancelled' = TRUE
    /\ UNCHANGED <<fnInput, fnResult, Query, pc, params, transactions, tdi, si, nargs, adi, args,
                   argCtx, out, err, ti, db, resp, lastEval>>

Next ==
    \/ GetParseParams
    \/ BeginTransaction
    \/ StepStart
    \/ ResolveArg
    \/ ExpandArgs
    \/ ExecQuery
    \/ ScanRows
    \/ ApplyMap
    \/ CloseTransaction
    \/ CloseDone
    \/ GetReply
    \/ Cancel

Spec == Init /\ [][Next]_vars

\* ------------------------------------------------- Get and Post up to computeResponse
\* h.BodyType, and what reading the request body gives: a read error, or
\* the bytes read.
BodyTypes == {"form", "json", "string", "none"}

RawBodies ==
    {[readErr |-> TRUE,  data |-> ""],
     [readErr |-> FALSE, data |-> ""],
     [readErr |-> FALSE, data |-> "{\"a\":1}"],
     [readErr |-> FALSE, data |-> "{"]}

\* json.Unmarshal(data, &body) on the bodies above; numbers decode to
\* float64.
Unmarshal(data) ==
    IF data = "{\"a\":1}"
    THEN [val |-> MapV("a" :> FloatV(2)), err |-> NoErr]
    ELSE [val |-> Nil, err |-> "ErrJSON"]

\* The switch on h.BodyType of Handler.Post: the body, or the message of
\* the 406 it answers with.
ReadBody(bt, b) ==
    CASE bt = "json" ->
            IF b.readErr
            THEN [body |-> Nil, msg |-> "error reading request body"]
            ELSE IF b.data = "" THEN [body |-> Nil, msg |-> ""]
            ELSE IF Unmarshal(b.data).err # NoErr
            THEN [body |-> Nil, msg |-> "error parsing request body"]
            ELSE [body |-> Unmarshal(b.data).val, msg |-> ""]
      [] bt = "string" ->
            IF b.readErr
            THEN [body |-> Nil, msg |-> "error reading request body"]
            ELSE IF b.data = "" THEN [body |-> Nil, msg |-> ""]
            ELSE [body |-> StrV(b.data), msg |-> ""]
      [] OTHER -> [body |-> Nil, msg |-> ""]

\* Handler.Post going on to computeResponse after the 406 of a body it
\* could not read or parse.
PostParseParamsNoReturn ==
    /\ pc = "Post"
    /\ \E bt \in BodyTypes, b \in RawBodies :
         LET rb == ReadBody(bt, b) IN
         \E req \in Requests, pm \in PathParamMappings,
            qm \in QueryParamMappings :
           \E r \in ParseParams(cancelled, req, pm, qm) :
              IF r.err # NoErr
              THEN /\ resp' = Append(resp,
                           HttpError(500, "internal server error"))
                   /\ pc' = "done"
                   /\ UNCHANGED <<params, transactions, argCtx>>
              ELSE /\ params' = r.params
                   /\ transactions' = [i \in 1..NumTx |-> "nil"]
                   /\ argCtx' = [NoArgCtx EXCEPT !.body = rb.body]
                   /\ pc' = "begin"
                   /\ resp' = IF rb.msg # ""
                              THEN Append(resp, HttpError(406, rb.msg))
                              ELSE resp
    /\ lastEval' = NoEval
    /\ UNCHANGED <<fnInput, fnResult, Query, cancelled, tdi, si, nargs, adi,
                   args, out, err, ti, db>>

\* Handler.Post up to the call of computeResponse: the body is read, then
\* ParseParams; body is handed to computeResponse, which stores it in the
\* argContext.
PostParseParams ==
    /\ pc = "Post"
    /\ \E bt \in BodyTypes, b \in RawBodies :
         LET rb == ReadBody(bt, b) IN
         IF rb.msg # ""
         THEN /\ resp' = Append(resp, HttpError(406, rb.msg))
              /\ pc' = "done"
              /\ UNCHANGED <<params, transactions, argCtx>>
         ELSE \E req \in Requests, pm \in PathParamMappings,
                 qm \in QueryParamMappings :
                \E r \in ParseParams(cancelled, req, pm, qm) :
                   IF r.err # NoErr
                   THEN /\ resp' = Append(resp,
                                HttpError(500, "internal server error"))
                        /\ pc' = "done"
                        /\ UNCHANGED <<params, transactions, argCtx>>
                   ELSE /\ params' = r.params
                        /\ transactions' = [i \in 1..NumTx |-> "nil"]
                        /\ argCtx' = [NoArgCtx EXCEPT !.body = rb.body]
                        /\ pc' = "begin"
                        /\ UNCHANGED resp
    /\ lastEval' = NoEval
    /\ UNCHANGED <<fnInput, fnResult, Query, cancelled, tdi, si, nargs, adi,
                   args, out, err, ti, db>>

\* The handler of an endpoint is Get for GET and Post for any other method.
InitParams ==
    /\ Query \in QueryDefs
    /\ pc \in {"Get", "Post"}
    /\ cancelled = FALSE
    /\ params = [Path |-> << >>, Query |-> << >>]
    /\ transactions = << >>
    /\ tdi = 0
    /\ si = 0
    /\ nargs = 0
    /\ adi = 0
    /\ args = << >>
    /\ argCtx = NoArgCtx
    /\ out = Nil
    /\ err = NoErr
    /\ ti = 0
    /\ db = << >>
    /\ resp = << >>
    /\ lastEval = NoEval
    /\ fnInput = Nil
    /\ fnResult = Nil

NextParams ==
    \/ GetParseParams
    \/ PostParseParams
    \/ Cancel

SpecParams == InitParams /\ [][NextParams]_vars

\* ------------------------------------------------- Post from end to end
\* A request of either kind on an endpoint of one step, followed through
\* computeResponse and reply; Post ends like Get (return on error, else
\* reply).
InitPost ==
    /\ InitParams
    /\ NumSteps = 1

NextPost ==
    \/ GetParseParams
    \/ PostParseParams
    \/ BeginTransaction
    \/ StepStart
    \/ ResolveArg
    \/ ExpandArgs
    \/ ExecQuery
    \/ ScanRows
    \/ ApplyMap
    \/ CloseTransaction
    \/ CloseDone
    \/ GetReply
    \/ Cancel

SpecPost == InitPost /\ [][NextPost]_vars

\* ------------------------------------------------- panics
\* A run-time panic in computeResponse: the function stops where it is, its
\* named results keep the values they have, its locals go out of scope and
\* its deferred calls run, closeTransactions(ctx, err) among them.
Panic ==
    /\ pc' = "unwind"
    /\ nargs' = 0
    /\ adi' = 0
    /\ args' = << >>
    /\ argCtx' = NoArgCtx
    /\ UNCHANGED <<out, err, resp>>

\* The begin loop on a transaction whose db names no database: h.db[td.DB]
\* is nil and newTransaction dereferences it (db.db).
BeginPanic ==
    /\ pc = "begin"
    /\ Panic
    /\ lastEval' = NoEval
    /\ UNCHANGED <<fnInput, fnResult, Query, cancelled, params, transactions,
                   tdi, si, ti, db>>

\* sqlx.Rebind(t.db.options.BindType, query) after sqlx.In has succeeded:
\* options is the converted form of the database's options, which Main
\* leaves nil when it builds the Database.
RebindPanic ==
    /\ pc = "expand"
    /\ In(args).err = NoErr
    /\ Panic
    /\ lastEval' = NoEval
    /\ UNCHANGED <<fnInput, fnResult, Query, cancelled, params, transactions,
                   tdi, si, ti, db>>

\* t.QueryContext followed by defer rows.Close(): on failure rows is nil,
\* the handler answers 500 and returns nil, err, and the deferred Close
\* panics on the nil rows before closeTransactions runs.
ExecQueryDeferClose ==
    /\ pc = "exec"
    /\ LET t == Query.Steps[si + 1].Transaction IN
         \/ /\ ~cancelled
            /\ db' = Append(db, DbCall("query", t, si, TRUE))
            /\ pc' = "scan"
            /\ UNCHANGED <<resp, out, err, nargs, adi, args, argCtx>>
         \/ /\ db' = Append(db, DbCall("query", t, si, FALSE))
            /\ ReturnError("unwind", 500, "internal server error", "ErrQuery")
    /\ lastEval' = NoEval
    /\ UNCHANGED <<fnInput, fnResult, Query, cancelled, params, transactions,
                   tdi, si, ti>>

\* One iteration of the deferred closeTransactions loop while the panic
\* unwinds computeResponse.
UnwindTransaction ==
    /\ pc = "unwind"
    /\ ti < NumTx
    /\ transactions[ti + 1] # "nil"
    /\ \E r \in CommitOrRollback(cancelled, err, transactions[ti + 1]) :
         db' = IF r.op # "none"
               THEN Append(db, DbCall(r.op, ti, 0, r.operr = NoErr))
               ELSE db
    /\ ti' = ti + 1
    /\ lastEval' = NoEval
    /\ UNCHANGED <<fnInput, fnResult, Query, pc, cancelled, params,
                   transactions, tdi, si, nargs, adi, args, argCtx, out, err,
                   resp>>

\* closeTransactions has returned and the panic leaves computeResponse and
\* the handler: neither the return of Get nor reply is reached.
UnwindDone ==
    /\ pc = "unwind"
    /\ IF ti < NumTx THEN transactions[ti + 1] = "nil" ELSE TRUE
    /\ pc' = "panicked"
    /\ lastEval' = NoEval
    /\ UNCHANGED <<fnInput, fnResult, Query, cancelled, params, transactions,
                   tdi, si, nargs, adi, args, argCtx, out, err, ti, db, resp>>

\* The request context is cancelled while the handler has not ended.
CancelRunning ==
    /\ pc # "panicked"
    /\ Cancel

NextPanic ==
    \/ GetParseParams
    \/ BeginTransaction
    \/ BeginPanic
    \/ StepStart
    \/ ResolveArg
    \/ ExpandArgs
    \/ RebindPanic
    \/ ExecQueryDeferClose
    \/ ScanRows
    \/ ApplyMap
    \/ CloseTransaction
    \/ CloseDone
    \/ UnwindTransaction
    \/ UnwindDone
    \/ GetReply
    \/ CancelRunning

SpecPanic == Init /\ [][NextPanic]_vars

\* ------------------------------------------------- reply on its own
\* The values of __response.status: every type opaqueInt distinguishes, and
\* for the numeric ones a value on each side of the accepted range.
StatusValues ==
    {Nil, BoolV(TRUE), ListV(<<IntV(404)>>), MapV("code" :> IntV(404)),
     StrV("abc"), StrV("404"), StrV("0x194"), StrV("-1"),
     IntV(0), IntV(-1), IntV(404), IntV(MaxInt),
     FloatV(808), FloatV(809), FloatV(1),
     BigV(FALSE, 0, 404), BigV(FALSE, 1, 404)}

DataKeys ==
    {StrV("data"), StrV("nested"), StrV(responseKey), StrV("none"),
     IntV(1), Nil}

\* The __response objects: status and data_key are both optional.
ResponseObjects ==
    {MapV(<< >>)}
    \cup {MapV("status" :> s) : s \in StatusValues}
    \cup {MapV("data_key" :> k) : k \in DataKeys}
    \cup {MapV("status" :> s @@ "data_key" :> k) :
            s \in StatusValues, k \in DataKeys}

\* Final values: a mapping carrying a __response object next to its data,
\* a mapping whose __response is not an object, and values without one.
FinalValues ==
    {MapV(responseKey :> r @@ "data" :> IntV(1) @@ "1" :> StrV("one")
          @@ "nested" :> MapV(responseKey :> IntV(1))) : r \in ResponseObjects}
    \cup {MapV(responseKey :> IntV(5) @@ "data" :> IntV(1)),
          MapV("data" :> IntV(1)),
          ListV(<<MapV("id" :> IntV(1))>>),
          Nil}

\* Handler.Get at the return of computeResponse without error, holding the
\* final value out.
InitReply ==
    /\ Query \in QueryDefs
    /\ pc = "returned"
    /\ cancelled = FALSE
    /\ params = [Path |-> << >>, Query |-> << >>]
    /\ transactions = << >>
    /\ tdi = 0
    /\ si = 0
    /\ nargs = 0
    /\ adi = 0
    /\ args = << >>
    /\ argCtx = NoArgCtx
    /\ out \in FinalValues
    /\ err = NoErr
    /\ ti = 0
    /\ db = << >>
    /\ resp = << >>
    /\ lastEval = NoEval
    /\ fnInput = Nil
    /\ fnResult = Nil

NextReply == GetReply

SpecReply == InitReply /\ [][NextReply]_vars

\* ------------------------------------------------- functions on their own
\* IntSet.Equal: the same size, and every member of is is in other.
IntSetEqual(is, other) ==
    /\ Cardinality(is) = Cardinality(other)
    /\ \A i \in is : i \in other

\* QueryDef.Validate without the comparison of all and refs.
QueryDefValidateNoUnused(qd) ==
    LET all == 0..(Len(qd.Transactions) - 1)
    IN  (IF all = {} THEN <<[msg |-> "no transaction(s) defined", step |-> -1]>>
         ELSE << >>)
        \o SelectSeq([i \in 1..Len(qd.Steps) |->
                        [msg  |-> "step refers to undefined transaction",
                         step |-> IF qd.Steps[i].Transaction \in all
                                  THEN -1 ELSE i - 1]],
                     LAMBDA e : e.step # -1)

\* QueryDef.Validate as it collects its errors, in order; the empty
\* sequence is the nil error.
QueryDefValidate(qd) ==
    LET all  == 0..(Len(qd.Transactions) - 1)
        refs == {qd.Steps[i].Transaction : i \in DOMAIN qd.Steps}
        undefinedAt(i) ==
            IF qd.Steps[i].Transaction \in all THEN << >>
            ELSE <<[msg |-> "step refers to undefined transaction",
                    step |-> i - 1]>>
        RECURSIVE steps(_)
        steps(i) == IF i > Len(qd.Steps) THEN << >>
                    ELSE undefinedAt(i) \o steps(i + 1)
    IN  (IF all = {} THEN <<[msg |-> "no transaction(s) defined", step |-> -1]>>
         ELSE << >>)
        \o steps(1)
        \o (IF IntSetEqual(all, refs) THEN << >>
            ELSE <<[msg |-> "unused transaction(s) in query", step |-> -1]>>)

\* Query definitions as a configuration file may give them: any number of
\* transactions and steps, step indices on both sides of the valid range.
RawQueryDefs ==
    [Transactions : SeqsUpTo([Isolation : IsolationLevels], MaxTx),
     Steps        : SeqsUpTo([Transaction : (-1)..MaxTx], MaxSteps)]

\* Values handed to opaqueInt: every type of its switch.
CoercionInputs ==
    {Nil, BoolV(TRUE), BoolV(FALSE), ListV(<< >>), ListV(<<IntV(1)>>),
     MapV(<< >>), MapV("a" :> IntV(1)),
     StrV(""), StrV("abc"), StrV("404"), StrV("0x194"), StrV("0o12"), StrV("-1"),
     IntV(0), IntV(-1), IntV(404), IntV(MaxInt),
     FloatV(808), FloatV(809), FloatV(-809), FloatV(1), FloatV(-1),
     BigV(FALSE, 0, 404), BigV(TRUE, 0, 404),
     BigV(FALSE, 1, 404), BigV(TRUE, 1, 404), BigV(FALSE, 1, 0)}

\* One function is applied to one input.
FnIdle ==
    /\ Query = [Transactions |-> <<[Isolation |-> "none"]>>,
                Steps        |-> <<[Transaction |-> 0]>>]
    /\ cancelled = FALSE
    /\ params = [Path |-> << >>, Query |-> << >>]
    /\ transactions = << >>
    /\ tdi = 0
    /\ si = 0
    /\ nargs = 0
    /\ adi = 0
    /\ args = << >>
    /\ argCtx = NoArgCtx
    /\ out = Nil
    /\ err = NoErr
    /\ ti = 0
    /\ db = << >>
    /\ resp = << >>
    /\ lastEval = NoEval
    /\ fnResult = Nil

hvars == <<Query, cancelled, params, transactions, tdi, si, nargs, adi, args,
           argCtx, out, err, ti, db, resp, lastEval, fnInput>>

Return(fn, r) ==
    /\ pc = fn
    /\ fnResult' = r
    /\ pc' = fn \o " done"
    /\ UNCHANGED hvars

ApplyValidate  == Return("Validate", QueryDefValidate(fnInput))
ApplyOpaqueInt == Return("opaqueInt", opaqueInt(fnInput))

\* What the iterator of an expression may yield: values and errors.
ItemSeqs == SeqsUpTo({IntV(1), Nil, ErrItem}, MaxItems)

ApplyExprApply == Return("Expr.Apply", ExprApply(fnInput))

\* Chains and inputs handed to Mapping.Apply, with a live context and the
\* context variable of a parameter mapping.
ChainExprs  == {".", "first", "tonumber", "error", "empty", ".,."}
ChainInputs ==
    [m     : SeqsUpTo(ChainExprs, MaxChain),
     input : {ListV(<<StrV("42")>>), StrV("42"), IntV(1)}]

ApplyMappingApply ==
    /\ pc = "Mapping.Apply"
    /\ \E r \in MappingApply(FALSE, fnInput.m, fnInput.input, Nil) :
          Return("Mapping.Apply", r)

\* JSON documents of one argument definition, as decoded values.
ArgDefDocs ==
    {Nil, BoolV(TRUE), FloatV(84), StrV("x"),
     ListV(<< >>), ListV(<<FloatV(2), FloatV(4)>>),
     MapV(<< >>),
     MapV("path" :> StrV("id")), MapV("query" :> StrV("tag")),
     MapV("expr" :> StrV(".")), MapV("expr" :> StrV("(")),
     MapV("path" :> FloatV(2)), MapV("query" :> ListV(<< >>)),
     MapV("expr" :> FloatV(2)), MapV("path" :> Nil),
     MapV("literal" :> StrV("x")),
     MapV("path" :> StrV("id") @@ "query" :> StrV("tag")),
     MapV("path" :> StrV("id") @@ "note" :> StrV("x"))}

ErrBadArgDef == "ErrBadArgDef"

\* unmarshalStrict(value, &s) for a string s: a JSON string is stored, null
\* leaves s empty, anything else is an error.
DecodeString(v) ==
    CASE v.t = "str"  -> [s |-> v.v, err |-> NoErr]
      [] v.t = "null" -> [s |-> "",  err |-> NoErr]
      [] OTHER        -> [s |-> "",  err |-> "ErrDecode"]

\* Expr.UnmarshalText through unmarshalStrict: gojq.Parse and gojq.Compile
\* of a JSON string.
DecodeExpr(v) ==
    CASE v.t = "str" /\ v.v = "(" -> [s |-> "",  err |-> "ErrParse"]
      [] v.t = "str"              -> [s |-> v.v, err |-> NoErr]
      [] v.t = "null"             -> [s |-> "",  err |-> NoErr]
      [] OTHER                    -> [s |-> "",  err |-> "ErrDecode"]

\* UnmarshalArgDef: the blob decodes into a map when it is an object or
\* null; any other document is decoded as a literal.
UnmarshalArgDef(blob) ==
    IF blob.t = "null"
    THEN [def |-> ArgLiteral(Nil), err |-> NoErr]
    ELSE IF blob.t = "map"
    THEN IF Cardinality(DOMAIN blob.v) # 1
         THEN [def |-> Nil, err |-> ErrBadArgDef]
         ELSE LET key   == CHOOSE k \in DOMAIN blob.v : TRUE
                  value == blob.v[key]
              IN  CASE key = "path" ->
                         IF DecodeString(value).err # NoErr
                         THEN [def |-> Nil, err |-> "ErrPathArgDef"]
                         ELSE [def |-> PathParamRef(DecodeString(value).s),
                               err |-> NoErr]
                    [] key = "query" ->
                         IF DecodeString(value).err # NoErr
                         THEN [def |-> Nil, err |-> "ErrQueryArgDef"]
                         ELSE [def |-> QueryParamRef(DecodeString(value).s),
                               err |-> NoErr]
                    [] key = "expr" ->
                         IF DecodeExpr(value).err # NoErr
                         THEN [def |-> Nil, err |-> "ErrExprArgDef"]
                         ELSE [def |-> ExprParam(DecodeExpr(value).s),
                               err |-> NoErr]
                    [] OTHER -> [def |-> Nil, err |-> ErrBadArgDef]
    ELSE [def |-> ArgLiteral(blob), err |-> NoErr]

ApplyUnmarshalArgDef == Return("UnmarshalArgDef", UnmarshalArgDef(fnInput))

\* ------------------------------------------------- response headers
\* http.CanonicalHeaderKey on the names that occur in envelopes.
CanonicalHeaderKey(k) ==
    CASE k \in {"x-foobar", "X-Foobar", "X-FOOBAR"}  -> "X-Foobar"
      [] k \in {"x-other", "X-Other"}                -> "X-Other"
      [] k \in {"content-type", "Content-Type"}      -> "Content-Type"
      [] k \in {"content-length", "Content-Length"}  -> "Content-Length"
      [] OTHER                                       -> k

\* opaqueStrings: the strings of a sequence's convertible elements, or the
\* one string of another value.
RECURSIVE ConvertibleStrings(_)
ConvertibleStrings(q) ==
    IF Len(q) = 0 THEN << >>
    ELSE (IF opaqueString(Head(q)).ok THEN <<opaqueString(Head(q)).s>>
          ELSE << >>) \o ConvertibleStrings(Tail(q))

opaqueStrings(v) ==
    CASE v.t = "null" -> [strs |-> << >>, ok |-> FALSE]
      [] v.t = "list" -> [strs |-> ConvertibleStrings(v.v),
                          ok   |-> Len(ConvertibleStrings(v.v)) > 0]
      [] OTHER        -> IF opaqueString(v).ok
                         THEN [strs |-> <<opaqueString(v).s>>, ok |-> TRUE]
                         ELSE [strs |-> << >>, ok |-> FALSE]

\* http.Header as a function from canonical names to their values:
\* Header.Set replaces the values of a name, Header.Add appends to them.
HeaderSet(h, k, v) ==
    [x \in (DOMAIN h) \cup {k} |-> IF x = k THEN <<v>> ELSE h[x]]

HeaderAdd(h, k, v) ==
    [x \in (DOMAIN h) \cup {k} |->
        IF x # k THEN h[x]
        ELSE IF k \in DOMAIN h THEN Append(h[k], v) ELSE <<v>>]

RECURSIVE AddValues(_, _, _)
AddValues(h, k, hvs) ==
    IF Len(hvs) = 0 THEN h
    ELSE AddValues(HeaderAdd(h, k, Head(hvs)), k, Tail(hvs))

\* The loop over the headers of the envelope, in the order the map is
\* iterated.
RECURSIVE AddHeaders(_, _, _)
AddHeaders(h, headers, order) ==
    IF Len(order) = 0 THEN h
    ELSE AddHeaders(
            AddValues(h, CanonicalHeaderKey(Head(order)),
                      opaqueStrings(headers.v[Head(order)]).strs),
            headers, Tail(order))

\* http.Error sets the content type of its plain-text body.
ErrorHeader(h) ==
    HeaderSet(HeaderSet(h, "Content-Type", "text/plain; charset=utf-8"),
              "X-Content-Type-Options", "nosniff")

\* Handler.reply: w.Header() when reply returns, for the final value and
\* the order in which the envelope's headers are visited.  The value
\* of Content-Length is the length of the marshalled body.
replyHeader(final, order) ==
    LET mr       == IF final.t = "map" THEN final ELSE Nil
        r        == Index(mr, responseKey)
        env      == r.t = "map"
        status64 == opaqueInt(Index(r, "status"))
        headers  == Index(r, "headers")
        added    == IF env /\ headers.t = "map"
                    THEN AddHeaders(<< >>, headers, order)
                    ELSE << >>
    IN  IF env /\ status64.ok /\ (status64.i > MaxInt \/ status64.i <= 0)
        THEN ErrorHeader(<< >>)
        ELSE HeaderSet(HeaderSet(added, "Content-Length", "len(blob)"),
                       "Content-Type", "application/json")

\* The headers objects of envelopes, and the final values carrying them.
HeaderObjects ==
    {MapV(<< >>), StrV("x-foobar"),
     MapV("x-foobar" :> ListV(<<StrV("something")>>)),
     MapV("x-foobar" :> ListV(<<StrV("a"), Nil, IntV(1), StrV("a")>>)),
     MapV("x-foobar" :> StrV("a")),
     MapV("x-foobar" :> FloatV(3)),
     MapV("x-foobar" :> Nil),
     MapV("x-foobar" :> ListV(<<Nil>>)),
     MapV("x-foobar" :> ListV(<< >>)),
     MapV("x-foobar" :> StrV("a") @@ "X-Foobar" :> StrV("b")),
     MapV("x-foobar" :> ListV(<<StrV("a"), StrV("b")>>) @@ "x-other" :> IntV(1)),
     MapV("content-type" :> StrV("text/html")),
     MapV("content-length" :> IntV(0) @@ "x-foobar" :> StrV("a"))}

HeaderEnvelopes ==
    {MapV("headers" :> h) : h \in HeaderObjects}
    \cup {MapV("headers" :> h @@ "status" :> s) :
            h \in HeaderObjects, s \in {IntV(404), IntV(0), StrV("abc")}}

\* The orders in which a map with the keys S may be iterated.
Orders(S) ==
    {f \in [1..Cardinality(S) -> S] :
        \A i, j \in 1..Cardinality(S) : i # j => f[i] # f[j]}

HeaderInputs ==
    UNION {
        LET v == MapV(responseKey :> e @@ "data" :> IntV(1))
            h == Index(e, "headers")
        IN  {[out |-> v, order |-> o] :
                o \in Orders(IF h.t = "map" THEN DOMAIN h.v ELSE {})}
        : e \in HeaderEnvelopes }
    \cup {[out |-> MapV("data" :> IntV(1)), order |-> << >>]}

ApplyReplyHeader ==
    /\ pc = "reply"
    /\ Return("reply", replyHeader(fnInput.out, fnInput.order))

\* ------------------------------------------------- database pools
\* A pool as sqlx.Open returns it: at most two idle connections are kept,
\* and maxOpen = 0 puts no limit on the open ones.
NewPool == [maxIdle |-> 2, maxOpen |-> 0]

\* (*sql.DB).SetMaxIdleConns: a limit below one keeps no idle connection,
\* and the limit never exceeds a positive maxOpen.
SetMaxIdleConns(p, n) ==
    [p EXCEPT !.maxIdle = IF n <= 0 THEN 0
                          ELSE IF p.maxOpen > 0 /\ n > p.maxOpen THEN p.maxOpen
                          ELSE n]

\* The optional pool settings Main applies to a database: both MaxIdle and
\* MaxOpen are handed to SetMaxIdleConns.
PoolOptions(dbe) ==
    LET p1 == IF dbe.MaxIdle > 0 THEN SetMaxIdleConns(NewPool, dbe.MaxIdle)
              ELSE NewPool
    IN  IF dbe.MaxOpen > 0 THEN SetMaxIdleConns(p1, dbe.MaxOpen) ELSE p1

\* DatabaseDef: max_idle and max_open as a configuration may give them.
DatabaseDefs == [MaxIdle : (-1)..3, MaxOpen : (-1)..3]

ApplyPoolOptions == Return("PoolOptions", PoolOptions(fnInput))

\* ------------------------------------------------- configuration
\* EndpointDef.Validate: the method, the path, and the query's validation.
EndpointDefValidate(ed) ==
    (IF ed.Method = "" THEN <<"method is empty">> ELSE << >>)
    \o (IF ed.Path = "" THEN <<"path is empty">> ELSE << >>)
    \o (IF QueryDefValidate(ed.Query) # << >>
        THEN <<"query failed validation">> ELSE << >>)

\* Config.Validate: the endpoints that fail their validation, in order; the
\* empty sequence is the nil error.  The databases are not looked at.
ConfigValidate(c) ==
    SelectSeq([i \in 1..Len(c.Endpoints) |->
                  [endpoint |-> i - 1,
                   failed   |-> EndpointDefValidate(c.Endpoints[i]) # << >>]],
              LAMBDA e : e.failed)

\* Configurations: the names under databases, and endpoints whose
\* transactions name a database.
TransactionDefs == [DB : {"main", "other"}, Isolation : IsolationLevels]

EndpointDefs ==
    [Method : {"", "GET"},
     Path   : {"", "/"},
     Query  : [Transactions : {<< >>} \cup {<<td>> : td \in TransactionDefs},
               Steps        : {<< >>, <<[Transaction |-> 0]>>,
                               <<[Transaction |-> 1]>>}]]

Configs ==
    [Databases : SUBSET {"main", "other"},
     Endpoints : {<< >>} \cup {<<ed>> : ed \in EndpointDefs}]

ApplyConfigValidate == Return("Config.Validate", ConfigValidate(fnInput))

InitFn ==
    /\ FnIdle
    /\ \/ pc = "Validate"        /\ fnInput \in RawQueryDefs
       \/ pc = "opaqueInt"       /\ fnInput \in CoercionInputs
       \/ pc = "Expr.Apply"      /\ fnInput \in ItemSeqs
       \/ pc = "Mapping.Apply"   /\ fnInput \in ChainInputs
       \/ pc = "UnmarshalArgDef" /\ fnInput \in ArgDefDocs
       \/ pc = "reply"           /\ fnInput \in HeaderInputs
       \/ pc = "PoolOptions"     /\ fnInput \in DatabaseDefs
       \/ pc = "Config.Validate" /\ fnInput \in Configs

NextFn ==
    \/ ApplyValidate
    \/ ApplyOpaqueInt
    \/ ApplyExprApply
    \/ ApplyMappingApply
    \/ ApplyUnmarshalArgDef
    \/ ApplyReplyHeader
    \/ ApplyPoolOptions
    \/ ApplyConfigValidate

SpecFn == InitFn /\ [][NextFn]_vars

\* ------------------------------------------------- the server group of Main
\* Main from the errgroup on.  fnInput.bind is len(conf.Bind); fnResult is
\* the group while it runs: signal (the context of main is done), err (the
\* first error a function of the group returned), what each Serve and each
\* shutdown function has come to, and the code Main returns (-1 before).
Binds == [bind : 1..2]

\* The context of errgroup.WithContext(ctx): done when ctx is done or a
\* function of the group has returned an error.
GroupDone(g) == g.signal \/ g.err # NoErr

\* A function started with wg.Go returns e: the first non-nil error is kept.
GroupReturn(g, e) == [g EXCEPT !.err = IF @ = NoErr THEN e ELSE @]

\* The loop over servers: every Serve and every shutdown function is
\* started; Main blocks in wg.Wait.
MainGo ==
    /\ pc = "Main"
    /\ fnResult' = [signal   |-> FALSE,
                    err      |-> NoErr,
                    serve    |-> [i \in 1..fnInput.bind |-> "serving"],
                    shutdown |-> [i \in 1..fnInput.bind |-> "waiting"],
                    exit     |-> -1]
    /\ pc' = "wg.Wait"
    /\ UNCHANGED hvars

\* SIGINT or SIGTERM: the context of main is done.
Signal ==
    /\ pc = "wg.Wait"
    /\ ~fnResult.signal
    /\ fnResult' = [fnResult EXCEPT !.signal = TRUE]
    /\ UNCHANGED <<pc, hvars>>

\* sv.Serve(l) returns an error other than http.ErrServerClosed.
ServeError ==
    /\ pc = "wg.Wait"
    /\ \E i \in DOMAIN fnResult.serve :
         /\ fnResult.serve[i] = "serving"
         /\ fnResult.shutdown[i] = "waiting"
         /\ fnResult' = GroupReturn([fnResult EXCEPT !.serve[i] = "error"],
                                    "ErrServe")
    /\ UNCHANGED <<pc, hvars>>

\* sv.Serve(l) returns http.ErrServerClosed once Shutdown or Close has been
\* called; the function returns nil.
ServeClosed ==
    /\ pc = "wg.Wait"
    /\ \E i \in DOMAIN fnResult.serve :
         /\ fnResult.serve[i] = "serving"
         /\ fnResult.shutdown[i] # "waiting"
         /\ fnResult' = [fnResult EXCEPT !.serve[i] = "closed"]
    /\ UNCHANGED <<pc, hvars>>

\* The shutdown function wakes on <-ctx.Done() and calls sv.Shutdown with
\* the timeout of ten seconds.
ServerShutdown ==
    /\ pc = "wg.Wait"
    /\ GroupDone(fnResult)
    /\ \E i \in DOMAIN fnResult.shutdown :
         /\ fnResult.shutdown[i] = "waiting"
         /\ fnResult' = [fnResult EXCEPT !.shutdown[i] = "Shutdown"]
    /\ UNCHANGED <<pc, hvars>>

\* sv.Shutdown returns: nil, and the function returns nil; or an error (the
\* timeout has expired), sv.Close() follows and the function returns the
\* err of Main, which is nil.
ServerClosed ==
    /\ pc = "wg.Wait"
    /\ \E i \in DOMAIN fnResult.shutdown, how \in {"closed", "forced"} :
         /\ fnResult.shutdown[i] = "Shutdown"
         /\ fnResult' = GroupReturn([fnResult EXCEPT !.shutdown[i] = how],
                                    NoErr)
    /\ UNCHANGED <<pc, hvars>>

GroupReturned(g) ==
    /\ \A i \in DOMAIN g.serve : g.serve[i] # "serving"
    /\ \A i \in DOMAIN g.shutdown : g.shutdown[i] \in {"closed", "forced"}

\* wg.Wait returning 0 whatever the group's error.
WaitExitZero ==
    /\ pc = "wg.Wait"
    /\ GroupReturned(fnResult)
    /\ fnResult' = [fnResult EXCEPT !.exit = 0]
    /\ pc' = "Main done"
    /\ UNCHANGED hvars

\* wg.Wait returns the group's first error when every function has
\* returned; Main returns 1 on an error and 0 otherwise.
Wait ==
    /\ pc = "wg.Wait"
    /\ GroupReturned(fnResult)
    /\ fnResult' = [fnResult EXCEPT !.exit = IF fnResult.err # NoErr
                                      THEN 1 ELSE 0]
    /\ pc' = "Main done"
    /\ UNCHANGED hvars

InitMain ==
    /\ FnIdle
    /\ pc = "Main"
    /\ fnInput \in Binds

NextMain ==
    \/ MainGo
    \/ Signal
    \/ ServeError
    \/ ServeClosed
    \/ ServerShutdown
    \/ ServerClosed
    \/ Wait

\* Every function of the group runs when it can: a goroutine is scheduled,
\* and Shutdown returns within its timeout.
SpecMain ==
    /\ InitMain
    /\ [][NextMain]_vars
    /\ WF_vars(MainGo)
    /\ WF_vars(ServeClosed)
    /\ WF_vars(ServerShutdown)
    /\ WF_vars(ServerClosed)
    /\ WF_vars(Wait)

\* ------------------------------------------------- properties
\* Positions of db holding a call of one of the operations ops.
Calls(ops)  == {i \in DOMAIN db : db[i].op \in ops}
Begun       == {i \in Calls({"begin"}) : db[i].ok}
Finals      == Calls({"commit", "rollback"})
FinalsOf(k) == {i \in Finals : db[i].tx = k}
Returned    == pc \in {"returned", "done"}
StepFailed  == err \notin {NoErr, "ErrBegin"}
SeenBy(e, key) == Index(e.ctx, key).v
Evaluated(e)   == e.where \in {"arg", "map"}

\* C1 -- Transaction balance: no transaction is ever finalized twice or
\* without having been begun, and when computeResponse has returned every
\* successfully begun transaction has exactly one Commit or Rollback call,
\* so the successful begins equal the commit+rollback calls.
C1_TransactionBalance ==
    /\ \A i \in Finals : \E b \in Begun : db[b].tx = db[i].tx /\ b < i
    /\ \A k \in 0..(NumTx - 1) : Cardinality(FinalsOf(k)) <= 1
    /\ Returned =>
          /\ Cardinality(Begun) = Cardinality(Finals)
          /\ \A b \in Begun : Cardinality(FinalsOf(db[b].tx)) = 1

C1_Witness ==
    /\ Returned
    /\ cancelled
    /\ Cardinality(Begun) = 2
    /\ Cardinality(Finals) = 2

\* C2 -- Rollback on failure: once a step has failed (argument resolution,
\* IN expansion, SQL execution, row scan or mapping) no transaction of the
\* request is committed, and when computeResponse has returned every begun
\* transaction has been rolled back.
C2_RollbackOnFailure ==
    StepFailed =>
        /\ Calls({"commit"}) = {}
        /\ Returned =>
              \A b \in Begun : \E i \in Calls({"rollback"}) : db[i].tx = db[b].tx

C2_Witness ==
    /\ Returned
    /\ err = "ErrMapping"
    /\ ~cancelled
    /\ Cardinality(Begun) = 2
    /\ Cardinality(Calls({"rollback"})) = 2

\* C3 -- All transactions of a request are finalized with the same action:
\* no execution commits some transactions and rolls back others.
C3_SameAction ==
    ~(Calls({"commit"}) # {} /\ Calls({"rollback"}) # {})

C5_BeginFailure ==
    err = "ErrBegin" =>
        \E f \in Calls({"begin"}) :
            /\ ~db[f].ok
            /\ resp = <<HttpError(500, "error preparing request")>>
            /\ Calls({"query"}) = {}
            /\ \A i \in Calls({"begin"}) : db[i].tx <= db[f].tx
            /\ Calls({"commit"}) = {}
            /\ Returned =>
                  \A b \in Begun :
                      \E i \in Calls({"rollback"}) : db[i].tx = db[b].tx

C5_Witness ==
    /\ pc = "done"
    /\ err = "ErrBegin"
    /\ Begun # {}
    /\ \E f \in Calls({"begin"}) : ~db[f].ok /\ db[f].tx = 1
    /\ Calls({"rollback"}) # {}

\* C6 -- Finalization order and independence: Commit/Rollback calls are made
\* in declaration order, and a failed Commit or Rollback on transaction k
\* does not stop finalization: when computeResponse has returned, every
\* begun transaction after k has been finalized too.
C6_FinalizationOrder ==
    /\ \A i, j \in Finals : i < j => db[i].tx < db[j].tx
    /\ Returned =>
          \A i \in Finals :
              ~db[i].ok =>
                  \A b \in Begun :
                      db[b].tx > db[i].tx => FinalsOf(db[b].tx) # {}

C6_Witness ==
    /\ Returned
    /\ \E i, j \in Finals : i < j /\ ~db[i].ok /\ db[i].tx = 0 /\ db[j].tx = 1

\* C7 -- Finalization errors do not override the primary outcome: no step of
\* closeTransactions, whatever Commit or Rollback returns, changes the
\* (out, err) result of computeResponse or writes to the client, and the
\* response to a successful pipeline is the reply to its final value.
C7_PrimaryOutcome ==
    [][ /\ pc = "close" => (out' = out /\ err' = err /\ resp' = resp)
        /\ (pc = "returned" /\ pc' = "done" /\ err = NoErr) =>
              resp' = <<reply(out)>>
        /\ (pc = "returned" /\ err # NoErr) => resp' = resp ]_vars

C7_Witness ==
    /\ pc = "done"
    /\ err = NoErr
    /\ \E i \in Calls({"commit"}) : ~db[i].ok
    /\ resp = <<[status |-> 200, body |-> MapV("id" :> IntV(1))]>>

C9_OrderPreservation ==
    /\ \A i, j \in Calls({"query"}) : i < j => db[i].n < db[j].n
    /\ pc \in {"step", "resolve", "expand", "exec", "scan", "map"} =>
          Len(argCtx.outputs) = si
    /\ Evaluated(lastEval) =>
          /\ Len(SeenBy(lastEval, "outputs")) = lastEval.step
          /\ Len(argCtx.outputs) >= lastEval.step =>
                SeenBy(lastEval, "outputs")
                    = SubSeq(argCtx.outputs, 1, lastEval.step)

C9_Witness ==
    /\ lastEval # NoEval
    /\ lastEval.where = "arg"
    /\ lastEval.step = 1
    /\ pc = "expand"
    /\ args = <<IntV(42)>>
    /\ Cardinality(Calls({"query"})) = 1
    /\ SeenBy(lastEval, "outputs") = <<MapV("id" :> IntV(1))>>

Written        == resp[Len(resp)]
ResponseOf(v)  == Index(v, responseKey)
StatusPresent(v) ==
    /\ ResponseOf(v).t = "map"
    /\ "status" \in DOMAIN ResponseOf(v).v
    /\ ResponseOf(v).v["status"] # Nil
Replied == pc = "done" /\ err = NoErr /\ Len(resp) = 1

\* C11 -- Status coercion: a __response.status that is present but does not
\* coerce to an integer in 1..MaxInt is answered with HTTP 500; otherwise
\* the status written is the coerced value, and 200 when status is absent.
C11_StatusCoercion ==
    Replied =>
        LET s == opaqueInt(Index(ResponseOf(out), "status")) IN
        IF ~StatusPresent(out) THEN Written.status = 200
        ELSE IF s.ok /\ s.i >= 1 /\ s.i <= MaxInt THEN Written.status = s.i
        ELSE Written.status = 500

\* C12 -- Envelope purity: the body emitted by reply never has a __response
\* key, whether the body is the outer mapping or the field data_key names.
C12_EnvelopePurity ==
    Replied =>
        ~(Written.body.t = "map" /\ responseKey \in DOMAIN Written.body.v)

\* ------------------------------------------------- parameter mapping
ParamNames == {"id", "tag", "page"}

\* C13 -- A request that a handler ends before computeResponse for a
\* parameter mapping failure (every early end but the 406 of an unreadable
\* body) is answered with HTTP 400 and a body naming the parameter, by the
\* GET handler and by the handler of the other methods alike.
C13_ParamFailureIs400 ==
    (pc = "done" /\ Len(resp) = 1 /\ Written.status # 406) =>
        /\ Written.status = 400
        /\ Written.body \in {StrV("bad request: " \o n) : n \in ParamNames}

\* ------------------------------------------------- short circuit
QueriesOf(k) == {q \in Calls({"query"}) : db[q].n = k}

\* What holds in every state once a step has failed: the handler is past
\* the step loop, no step after the failed one has run, nothing of the
\* step loop is kept, and the one response is a 500 with a fixed message.
ShortCircuited ==
    StepFailed =>
        /\ pc \in {"close", "returned", "done"}
        /\ \A q \in Calls({"query"}) : db[q].n <= si
        /\ out = Nil
        /\ argCtx = NoArgCtx
        /\ args = << >>
        /\ resp \in {<<HttpError(500, m)>> :
                        m \in {"error resolving arguments",
                               "internal server error"}}

C15_ValidateIff ==
    pc = "Validate done" =>
        LET N == Len(fnInput.Transactions)
            idx(i) == fnInput.Steps[i].Transaction
        IN  /\ (fnResult = << >>) <=>
                  /\ N >= 1
                  /\ \A i \in DOMAIN fnInput.Steps : idx(i) >= 0 /\ idx(i) < N
                  /\ \A t \in 0..(N - 1) : \E i \in DOMAIN fnInput.Steps : idx(i) = t
            /\ Len(fnInput.Steps) = 0 => fnResult # << >>

C15_Witness ==
    /\ pc = "Validate done"
    /\ Len(fnInput.Transactions) = 1
    /\ Len(fnInput.Steps) = 0
    /\ fnResult = <<[msg |-> "unused transaction(s) in query", step |-> -1]>>

\* C16 -- opaqueInt gives ok with the value truncated toward zero for a
\* float, the value for an integer, the parsed value for a string, and for
\* an arbitrary-precision integer ok only when it fits 64 bits; null,
\* booleans, sequences and mappings are not ok.
C16_AsInt ==
    pc = "opaqueInt done" =>
        LET v == fnInput
            towardZero(h) == CHOOSE k \in (-1000)..1000 :
                                IF h >= 0 THEN 2 * k <= h /\ h < 2 * k + 2
                                ELSE 2 * k >= h /\ h > 2 * k - 2
        IN  CASE v.t = "float" -> fnResult = [i |-> towardZero(v.v), ok |-> TRUE]
              [] v.t = "int"   -> fnResult = [i |-> v.v, ok |-> TRUE]
              [] v.t = "str"   -> /\ fnResult.ok = ParseInt(v.v).ok
                                  /\ fnResult.ok => fnResult.i = ParseInt(v.v).i
              [] v.t = "big"   -> /\ fnResult.ok = (v.v.hi = 0)
                                  /\ fnResult.ok =>
                                        fnResult.i = IF v.v.neg THEN -v.v.lo
                                                     ELSE v.v.lo
              [] OTHER         -> ~fnResult.ok

\* C17 -- Single-result contract: Expr.Apply returns the value exactly when
\* the expression yields one item and it is not an error; no item gives
\* ErrNoMapping, a first item that is an error gives that error wrapped,
\* and a further item after a value gives ErrMultipleMapping.
C17_SingleResult ==
    pc = "Expr.Apply done" =>
        LET items == fnInput IN
        /\ (fnResult.err = NoErr) <=> (Len(items) = 1 /\ items[1].t # "error")
        /\ fnResult.err = NoErr => fnResult.val = items[1]
        /\ Len(items) = 0 => fnResult.err = ErrNoMapping
        /\ (Len(items) >= 1 /\ items[1].t = "error") => fnResult.err = "ErrExpr"
        /\ (Len(items) > 1 /\ items[1].t # "error") =>
                fnResult.err = ErrMultipleMapping
        /\ fnResult.err # NoErr => fnResult.val = Nil

C17_Witness ==
    /\ pc = "Expr.Apply done"
    /\ fnInput = <<IntV(1), Nil>>
    /\ fnResult = [val |-> Nil, err |-> ErrMultipleMapping]

\* The value after the first k expressions of chain m on input, and whether
\* expression k fails on the value before it.
RECURSIVE ChainVal(_, _, _)
ChainVal(m, x, k) ==
    IF k = 0 THEN x
    ELSE ExprApply(Run(m[k], ChainVal(m, x, k - 1), Nil)).val
ChainFails(m, x, k) ==
    ExprApply(Run(m[k], ChainVal(m, x, k - 1), Nil)).err # NoErr

\* C18 -- Mapping.Apply is a left fold: the input unchanged for an empty
\* chain, otherwise each expression's result is fed to the next with the
\* same context variable; at the first failing expression i the later ones
\* are not evaluated, no value is returned and the error carries i.
C18_LeftFold ==
    pc = "Mapping.Apply done" =>
        LET m     == fnInput.m
            x     == fnInput.input
            fails == {k \in 1..Len(m) :
                        /\ ChainFails(m, x, k)
                        /\ \A j \in 1..(k - 1) : ~ChainFails(m, x, j)}
        IN  /\ Len(m) = 0 => fnResult.val = x /\ fnResult.err = NoErr
            /\ fails = {} =>
                  /\ fnResult.err = NoErr
                  /\ fnResult.val = ChainVal(m, x, Len(m))
                  /\ fnResult.n = Len(m)
            /\ \A k \in fails :
                  /\ fnResult.err # NoErr
                  /\ fnResult.val = Nil
                  /\ fnResult.idx = k - 1
                  /\ fnResult.n = k

C18_Witness ==
    /\ pc = "Mapping.Apply done"
    /\ fnInput = [m |-> <<"first", "tonumber">>, input |-> ListV(<<StrV("42")>>)]
    /\ fnResult.err = NoErr
    /\ fnResult.val = IntV(42)

\* ------------------------------------------------- argument expansion
\* The number of bound parameters the first i resolved arguments of u take.
RECURSIVE Width(_, _)
Width(u, i) ==
    IF i = 0 THEN 0
    ELSE Width(u, i - 1) + (IF u[i].t = "list" THEN Len(u[i].v) ELSE 1)

\* C19 -- Argument expansion: a resolved list argument of length n takes n
\* bound parameters, in the list's order, at its place among the other
\* arguments, and the args recorded in the request context stay the
\* unexpanded resolved sequence.
C19_ArgumentExpansion ==
    [][ (pc = "expand" /\ pc' = "exec") =>
          /\ argCtx'.args = args
          /\ Len(args') = Width(args, Len(args))
          /\ \A i \in DOMAIN args :
                IF args[i].t = "list"
                THEN \A k \in 1..Len(args[i].v) :
                        args'[Width(args, i - 1) + k] = args[i].v[k]
                ELSE args'[Width(args, i - 1) + 1] = args[i] ]_vars

C19_Witness ==
    /\ pc = "exec"
    /\ argCtx.args = <<ListV(<<StrV("a"), StrV("b")>>), IntV(42)>>
    /\ args = <<StrV("a"), StrV("b"), IntV(42)>>

\* ------------------------------------------------- argument definitions
\* C20 -- UnmarshalArgDef: a scalar or null becomes a literal, a mapping
\* with the single key path, query or expr becomes the reference of that
\* kind, and an array, a mapping with no or several keys and a mapping with
\* another key are rejected.
C20_ArgDefParsing ==
    pc = "UnmarshalArgDef done" =>
        LET b == fnInput IN
        CASE b.t = "list" -> fnResult.err # NoErr
          [] b.t = "map"  ->
                IF Cardinality(DOMAIN b.v) = 1
                   /\ DOMAIN b.v \subseteq {"path", "query", "expr"}
                THEN \A k \in DOMAIN b.v :
                        (b.v[k].t = "str" /\ b.v[k].v # "(") =>
                            /\ fnResult.err = NoErr
                            /\ fnResult.def.kind = k
                            /\ b.v[k].v \in {fnResult.def.Name, fnResult.def.Expr}
                ELSE fnResult.err # NoErr
          [] OTHER -> fnResult = [def |-> ArgLiteral(b), err |-> NoErr]

\* ------------------------------------------------- transactions
\* The transactions declared with isolation none (0-based indices).
NoneTx == {k \in 0..(NumTx - 1) : Query.Transactions[k + 1].Isolation = "none"}

\* C22 -- A transaction declared with isolation none is bound to the pool
\* without a begin, and its finalization does nothing: the database never
\* receives a begin, Commit or Rollback for it, whether the request
\* succeeds, fails or is cancelled.
C22_NoneIsNoOp ==
    \A k \in NoneTx :
        /\ \A i \in Calls({"begin", "commit", "rollback"}) : db[i].tx # k
        /\ k < Len(transactions) => transactions[k + 1] \in {"nil", "pool"}
        /\ k < tdi => transactions[k + 1] = "pool"

C22_Witness ==
    /\ pc = "done"
    /\ NoneTx = {0}
    /\ NumTx = 2
    /\ ti = 2
    /\ cancelled
    /\ Cardinality(Begun) = 1
    /\ \E i \in Calls({"rollback"}) : db[i].tx = 1

\* The handles the begin loop leaves behind when it has passed every
\* declared transaction.
AllOpened ==
    /\ tdi = NumTx
    /\ \A k \in 0..(NumTx - 1) :
          transactions[k + 1] = IF k \in NoneTx THEN "pool" ELSE "tx"

\* C23 -- Every declared transaction is opened, in declaration order,
\* before the SQL of the first step executes, and the SQL of each step
\* executes on the transaction whose index the step declares.
C23_OpenThenRoute ==
    /\ \A i, j \in Calls({"begin"}) : i < j => db[i].tx < db[j].tx
    /\ \A q \in Calls({"query"}) :
          /\ db[q].tx = Query.Steps[db[q].n + 1].Transaction
          /\ \A k \in (0..(NumTx - 1)) \ NoneTx :
                \E b \in Begun : db[b].tx = k /\ b < q
    /\ pc \in {"step", "resolve", "expand", "exec", "scan", "map"} => AllOpened

C23_Witness ==
    /\ pc = "map"
    /\ si = 1
    /\ NoneTx = {}
    /\ \E b1, b2, q1, q2 \in DOMAIN db :
          /\ b1 < b2 /\ b2 < q1 /\ q1 < q2
          /\ db[b1] = DbCall("begin", 0, 0, TRUE)
          /\ db[b2] = DbCall("begin", 1, 0, TRUE)
          /\ db[q1] = DbCall("query", 0, 0, TRUE)
          /\ db[q2] = DbCall("query", 1, 1, TRUE)

\* ------------------------------------------------- data_key
\* The data_key of the envelope of v as a string, when v carries an envelope
\* and its data_key coerces to one.
DataKeyOf(v) ==
    IF ResponseOf(v).t = "map"
    THEN opaqueString(Index(ResponseOf(v), "data_key"))
    ELSE [s |-> "", ok |-> FALSE]

RefFailed == err \in {"ErrPathParam", "ErrQueryParam"}

\* C25 -- A path or query reference to a parameter the request's parameter
\* set lacks fails the resolution: the answer is the HTTP 500 of argument
\* resolution, the SQL of that step is not executed, nothing is committed
\* and every begun transaction is rolled back; a reference to a parameter
\* that is present resolves to its value after parameter mapping.
C25_ParamReference ==
    [][ /\ ( /\ pc = "resolve"
             /\ adi' = adi + 1 \/ pc' = "close"
             /\ lastEval'.where = "ref" ) =>
              LET ps == IF lastEval'.kind = "path" THEN params.Path
                        ELSE params.Query
              IN  IF lastEval'.name \in DOMAIN ps
                  THEN /\ pc' \in {"resolve", "expand"}
                       /\ args'[adi + 1] = ps[lastEval'.name]
                       /\ err' = NoErr
                       /\ resp' = resp
                  ELSE /\ pc' = "close"
                       /\ RefFailed'
                       /\ resp' = <<HttpError(500, "error resolving arguments")>>
                       /\ QueriesOf(si)' = {}
        /\ RefFailed =>
              /\ RefFailed'
              /\ db' # db => db'[Len(db')].op = "rollback"
              /\ resp' = resp
              /\ Returned' =>
                    \A b \in Begun' :
                        \E i \in Calls({"rollback"})' : db'[i].tx = db'[b].tx
      ]_vars

C25_Witness ==
    /\ pc = "done"
    /\ err = "ErrQueryParam"
    /\ si = 1
    /\ Calls({"query"}) = QueriesOf(0)
    /\ Cardinality(Begun) = 2
    /\ Cardinality(Calls({"rollback"})) = 2
    /\ resp = <<HttpError(500, "error resolving arguments")>>

\* ------------------------------------------------- envelope headers
\* The headers object of the envelope of v (empty when there is none), the
\* values a header carries under the canonical name c, and the strings of
\* the entries o of hs, one entry after the other.
HeadersOf(v) ==
    IF ResponseOf(v).t = "map" /\ Index(ResponseOf(v), "headers").t = "map"
    THEN Index(ResponseOf(v), "headers").v
    ELSE << >>
ValuesOf(h, c) == IF c \in DOMAIN h THEN h[c] ELSE << >>
RECURSIVE StringsIn(_, _)
StringsIn(hs, o) ==
    IF Len(o) = 0 THEN << >>
    ELSE opaqueStrings(hs[Head(o)]).strs \o StringsIn(hs, Tail(o))

\* C26 -- Envelope headers: every entry of __response.headers gives the
\* response, under its canonical name, the strings of its value in
\* sequence order, one header value per convertible element (null elements
\* dropped); entries that share a canonical name all contribute.
C26_EnvelopeHeaders ==
    (pc = "reply done" /\ "X-Content-Type-Options" \notin DOMAIN fnResult) =>
        LET hs == HeadersOf(fnInput.out) IN
        \A k \in DOMAIN hs :
            LET c    == CanonicalHeaderKey(k)
                same == {j \in DOMAIN hs : CanonicalHeaderKey(j) = c}
            IN  \E o \in Orders(same) :
                    ValuesOf(fnResult, c) = StringsIn(hs, o)

\* ------------------------------------------------- pool limits
\* C27 -- Database pool limits: after startup the pool keeps at most
\* max_idle idle connections and allows at most max_open open ones, each
\* setting applied only when greater than zero and otherwise left at the
\* default (two idle connections, no limit on open ones), independently of
\* the other.
C27_PoolLimits ==
    pc = "PoolOptions done" =>
        /\ fnResult.maxIdle = (IF fnInput.MaxIdle > 0 THEN fnInput.MaxIdle
                               ELSE NewPool.maxIdle)
        /\ fnResult.maxOpen = (IF fnInput.MaxOpen > 0 THEN fnInput.MaxOpen
                               ELSE NewPool.maxOpen)

\* ------------------------------------------------- context lengths
\* C28 -- Context length invariant: at every step boundary steps and
\* outputs both have one entry per completed step; the mapping chain of
\* step i is given a context whose steps has i+1 entries, the last being
\* the raw rows of step i, whose outputs has i entries, and whose args is
\* the resolved, unexpanded argument list of step i.
C28_ContextLengths ==
    [][ /\ pc' = "step" =>
              /\ Len(argCtx'.stepResults) = si'
              /\ Len(argCtx'.outputs) = si'
        /\ (pc = "map" /\ pc' = "close" /\ err' = NoErr) =>
              /\ si' = NumSteps
              /\ Len(argCtx'.stepResults) = NumSteps
              /\ Len(argCtx'.outputs) = NumSteps
        /\ (pc = "map" /\ lastEval'.where = "map") =>
              /\ lastEval'.step = si
              /\ Len(SeenBy(lastEval', "steps")) = si + 1
              /\ SeenBy(lastEval', "steps") = argCtx.stepResults
              /\ Len(SeenBy(lastEval', "outputs")) = si
              /\ SeenBy(lastEval', "args") = argCtx.args
              /\ Len(argCtx.args) = nargs
        /\ (pc = "expand" /\ pc' = "exec") =>
              /\ argCtx'.args = args
              /\ Len(args) = nargs
        /\ (pc \in {"exec", "scan"} /\ pc' # "close") =>
              argCtx'.args = argCtx.args
        /\ (pc = "scan" /\ pc' = "map") =>
              /\ Len(argCtx'.stepResults) = si + 1
              /\ Len(argCtx'.outputs) = si ]_vars

C28_Witness ==
    /\ lastEval.where = "map"
    /\ lastEval.step = 1
    /\ Len(SeenBy(lastEval, "steps")) = 2
    /\ Len(SeenBy(lastEval, "outputs")) = 1
    /\ SeenBy(lastEval, "args") = <<IntV(42), ListV(<<StrV("a"), StrV("b")>>)>>
    /\ pc = "close"
    /\ err = NoErr
    /\ Len(argCtx.outputs) = 2

\* ------------------------------------------------- client errors
\* A handler has ended the request before computeResponse, and what holds
\* of a request that was answered with a client error.
EndedEarly == pc \in {"Get", "Post"} /\ pc' = "done"
NoDatabaseWork ==
    (\E i \in DOMAIN resp : resp[i].status \in {400, 406}) =>
        /\ pc = "done"
        /\ Len(resp) = 1
        /\ db = << >>
        /\ transactions = << >>
        /\ tdi = 0 /\ si = 0

\* C29 -- Client errors precede all database work: a request rejected for
\* an unreadable or unparseable body (406) or for a parameter mapping
\* failure ends before computeResponse, so no transaction is begun, no step
\* is executed and no database handle is touched, then or later.
C29_ClientErrorsFirst ==
    [][ /\ NoDatabaseWork'
        /\ (pc \in {"Get", "Post"} /\ resp' # resp) =>
              /\ EndedEarly
              /\ db' = << >>
              /\ transactions' = << >>
        /\ pc = "done" => UNCHANGED <<db, transactions, tdi, si, resp>> ]_vars

C29_Witness ==
    /\ pc = "done"
    /\ resp = <<HttpError(406, "error parsing request body")>>
    /\ db = << >>
    /\ transactions = << >>
    /\ cancelled

C32_ResponseImpliesCommit ==
    [][ (/\ pc = "returned" /\ pc' = "done"
         /\ err = NoErr
         /\ resp' # resp
         /\ resp'[Len(resp')].status # 500) =>
            /\ Cardinality(Begun) = Cardinality(Finals)
            /\ Calls({"rollback"}) = {} ]_vars

\* ------------------------------------------------- abnormal termination
\* C33 -- Abnormal termination does not commit: while a panic raised inside
\* a step unwinds computeResponse no transaction of the request is
\* committed, and when the panic has left the handler every begun
\* transaction has been rolled back.
C33_PanicRollsBack ==
    /\ (pc \in {"unwind", "panicked"} /\ tdi = NumTx) =>
          Calls({"commit"}) = {}
    /\ (pc = "panicked" /\ tdi = NumTx) =>
          \A b \in Begun :
             \E i \in Calls({"rollback"}) : db[i].tx = db[b].tx

\* ------------------------------------------------- database references
\* C34 -- Database references are resolved: in a configuration that passes
\* Config.Validate the db of every transaction is a name defined under
\* databases.
C34_DatabasesResolved ==
    (pc = "Config.Validate done" /\ fnResult = << >>) =>
        \A i \in DOMAIN fnInput.Endpoints :
           \A k \in DOMAIN fnInput.Endpoints[i].Query.Transactions :
              fnInput.Endpoints[i].Query.Transactions[k].DB
                  \in fnInput.Databases

\* ------------------------------------------------- server group
ServeFailed == \E i \in DOMAIN fnResult.serve : fnResult.serve[i] = "error"

\* C35 -- Server group failure: once a Serve has returned an error the
\* group's context is done, and from then on every server is shut down,
\* every function of the group returns and Main returns 1; Main returns
\* only when all of them have returned, and it returns 0 when no Serve has
\* failed, as after a shutdown by signal alone.
C35_ServerGroup ==
    /\ [](pc \in {"wg.Wait", "Main done"} =>
            /\ ServeFailed => (GroupDone(fnResult) /\ fnResult.exit # 0)
            /\ pc = "Main done" =>
                  /\ GroupReturned(fnResult)
                  /\ fnResult.exit = IF ServeFailed THEN 1 ELSE 0)
    /\ (pc = "wg.Wait" /\ ServeFailed) ~>
          (pc = "Main done" /\ fnResult.exit = 1 /\ GroupReturned(fnResult))
    /\ (pc = "wg.Wait" /\ fnResult.signal /\ ~ServeFailed) ~>
          (pc = "Main done" /\ (fnResult.exit = 0 \/ ServeFailed))

C35_Witness ==
    /\ pc = "Main done"
    /\ fnResult.exit = 1
    /\ ~fnResult.signal
    /\ fnResult.serve = <<"error", "closed">>
    /\ fnResult.shutdown = <<"closed", "forced">>

====
